---- MODULE Spec2Model ----
(***************************************************************************)
(* Directive analysis of typescript-plugin-directives: the directive       *)
(* matcher and suggestion engine, the per-file scanner, the two-tier cache *)
(* (per-file cache and global export index) and the plugin entry points    *)
(* that drive them.                                                        *)
(*                                                                         *)
(* JavaScript strings are modelled as sequences of one-character strings,  *)
(* so that startsWith, slice, charAt, the key concatenation of the export  *)
(* index and the regular expression of matchDirective are computed the way *)
(* the code computes them.                                                 *)
(***************************************************************************)
EXTENDS Integers, Sequences, FiniteSets, TLC

VARIABLES
  version,      \* host: file -> current content-version token (identifies the content)
  fileCache,    \* cache.ts fileCache: file -> NoEntry or CachedDirectiveData
  exportMap,    \* cache.ts exportMap: key string -> directive
  scannedFiles, \* index.ts scannedFiles: set of "fileName::version" keys
  lastOp,       \* history: the operation that produced the current state
  writes,       \* history: cache/index writes performed by that operation
  lastEnsure,   \* history: file -> token seen by the last ensureFileScanned call (0: none)
  lastSet,      \* history: file -> what the last setCachedDirectives call stored
  arg,          \* pure-function runs: the inputs
  res           \* pure-function runs: the result

vars == <<version, fileCache, exportMap, scannedFiles, lastOp,
          writes, lastEnsure, lastSet, arg, res>>

----------------------------------------------------------------------------
(* Strings *)

\* JavaScript null / undefined result of a string-valued function
Null == <<"<null>">>

\* JavaScript truthiness of a string-or-null value
Truthy(s) == s # Null /\ s # <<>>

StartsWith(s, p) == Len(p) <= Len(s) /\ SubSeq(s, 1, Len(p)) = p

Slice(s, n) == SubSeq(s, n + 1, Len(s))

Includes(list, x) == \E i \in 1..Len(list) : list[i] = x

SetMin(S) == CHOOSE x \in S : \A y \in S : x <= y

UseStrict == <<"u","s","e"," ","s","t","r","i","c","t">>
UseServer == <<"u","s","e"," ","s","e","r","v","e","r">>
UseClient == <<"u","s","e"," ","c","l","i","e","n","t">>
UseNoMemo == <<"u","s","e"," ","n","o"," ","m","e","m","o">>
DefaultKey == <<"d","e","f","a","u","l","t">>
Separator == <<":",":">>

\* keys of interface DirectiveRegistry, in declaration order
BuiltinDirectives == <<UseStrict, UseServer, UseClient, UseNoMemo>>

----------------------------------------------------------------------------
(* Directive matcher *)

IsWhitespace(c) == c \in {" ", "\t", "\n", "\r"}
IsLineTerminator(c) == c \in {"\n", "\r"}
IsMarker(c) == c \in {";", ":"}

\* mutant: only ";" introduces a suffix
MatchesOptionsPattern_SemicolonOnly(rest) ==
  \E k \in 0..(Len(rest) - 1) :
     /\ \A i \in 1..k : IsWhitespace(rest[i])
     /\ rest[k + 1] = ";"
     /\ \E j \in (k + 2)..Len(rest) :
          /\ \A i \in (k + 2)..(j - 1) : IsWhitespace(rest[i])
          /\ ~IsLineTerminator(rest[j])

\* rest.match(/^[\s]*[;:][\s]*.+/)
MatchesOptionsPattern(rest) ==
  \E k \in 0..(Len(rest) - 1) :
     /\ \A i \in 1..k : IsWhitespace(rest[i])
     /\ IsMarker(rest[k + 1])
     /\ \E j \in (k + 2)..Len(rest) :
          /\ \A i \in (k + 2)..(j - 1) : IsWhitespace(rest[i])
          /\ ~IsLineTerminator(rest[j])

\* mutant: every name the text starts with counts
IsStructuralPrefix_AnyPrefix(directive, text) ==
  StartsWith(text, directive)

IsStructuralPrefix(directive, text) ==
  /\ StartsWith(text, directive)
  /\ LET rest == Slice(text, Len(directive))
     IN  rest = <<>> \/ MatchesOptionsPattern(rest)

\* mutant: the direct-match test is dropped, the prefix loop decides alone
MatchDirective_NoExact(text, validDirectives) ==
  LET hits == {i \in 1..Len(validDirectives) :
                 IsStructuralPrefix(validDirectives[i], text)}
  IN  IF hits = {} THEN Null ELSE validDirectives[SetMin(hits)]

MatchDirective(text, validDirectives) ==
  IF Includes(validDirectives, text)
  THEN text
  ELSE LET hits == {i \in 1..Len(validDirectives) :
                      IsStructuralPrefix(validDirectives[i], text)}
       IN  IF hits = {} THEN Null ELSE validDirectives[SetMin(hits)]

----------------------------------------------------------------------------
(* Syntax trees.  Every node is a record of one shape:                     *)
(*   kind  the SyntaxKind, text the literal text or the declared name,     *)
(*   prop  the propertyName of an export/import specifier,                 *)
(*   mods  the modifier keywords, kids the children in forEachChild order. *)

Node(kind, text, prop, mods, kids) ==
  [kind |-> kind, text |-> text, prop |-> prop, mods |-> mods, kids |-> kids]

StringLiteral(text) == Node("StringLiteral", text, <<>>, {}, <<>>)
Identifier(text) == Node("Identifier", text, <<>>, {}, <<>>)
OtherExpression == Node("Other", <<>>, <<>>, {}, <<>>)
ExpressionStatement(expr) == Node("ExpressionStatement", <<>>, <<>>, {}, <<expr>>)
OtherStatement == Node("OtherStatement", <<>>, <<>>, {}, <<>>)
Block(stmts) == Node("Block", <<>>, <<>>, {}, stmts)
FunctionDeclaration(name, mods, stmts) ==
  Node("FunctionDeclaration", name, <<>>, mods, <<Block(stmts)>>)
FunctionExpression(stmts) ==
  Node("FunctionExpression", <<>>, <<>>, {}, <<Block(stmts)>>)
ArrowFunction(stmts) == Node("ArrowFunction", <<>>, <<>>, {}, <<Block(stmts)>>)
ArrowExpression(expr) == Node("ArrowFunction", <<>>, <<>>, {}, <<expr>>)
VariableDeclaration(name, inits) == Node("VariableDeclaration", name, <<>>, {}, inits)
VariableStatement(mods, decls) == Node("VariableStatement", <<>>, <<>>, mods, decls)
ExportAssignment(expr) == Node("ExportAssignment", <<>>, <<>>, {}, <<expr>>)
ExportSpecifier(name, prop) == Node("ExportSpecifier", name, prop, {}, <<>>)
\* text is the module specifier of `export { .. } from "text"`, <<>> without one
ExportDeclaration(specifiers, from) ==
  Node("ExportDeclaration", from, <<>>, {}, specifiers)
ImportSpecifier(name, prop) == Node("ImportSpecifier", name, prop, {}, <<>>)
\* text is the module specifier; mods holds "default" for a default import
ImportDeclaration(from, mods, specifiers) ==
  Node("ImportDeclaration", from, <<>>, mods, specifiers)
\* text is the class name, <<>> for an anonymous default class
ClassDeclaration(name, mods) == Node("ClassDeclaration", name, <<>>, mods, <<>>)
SourceFile(stmts) == Node("SourceFile", <<>>, <<>>, {}, stmts)

IsFunctionLike(node) ==
  node.kind \in {"FunctionDeclaration", "FunctionExpression", "MethodDeclaration"}

HasBlockBody(node) == Len(node.kids) > 0 /\ node.kids[1].kind = "Block"

----------------------------------------------------------------------------
(* Per-file scanner *)

\* insertion-ordered Map<string, string>: a sequence of <<key, value>> pairs
MapHas(m, k) == \E i \in 1..Len(m) : m[i][1] = k
MapGet(m, k) ==
  IF MapHas(m, k) THEN m[CHOOSE i \in 1..Len(m) : m[i][1] = k][2] ELSE Null
MapSet(m, k, v) ==
  IF MapHas(m, k)
  THEN [i \in 1..Len(m) |-> IF m[i][1] = k THEN <<k, v>> ELSE m[i]]
  ELSE Append(m, <<k, v>>)
MapKeys(m) == {m[i][1] : i \in 1..Len(m)}

GetFirstDirective(statements, validDirectives) ==
  IF Len(statements) = 0 THEN Null
  ELSE LET firstStmt == statements[1]
       IN  IF /\ firstStmt.kind = "ExpressionStatement"
              /\ firstStmt.kids[1].kind = "StringLiteral"
           THEN MatchDirective(firstStmt.kids[1].text, validDirectives)
           ELSE Null

RECURSIVE LeadingDirectives(_, _, _)
LeadingDirectives(statements, i, validDirectives) ==
  IF i > Len(statements) THEN <<>>
  ELSE LET directive == GetFirstDirective(SubSeq(statements, i, Len(statements)),
                                          validDirectives)
       IN  IF Truthy(directive)
           THEN <<directive>> \o LeadingDirectives(statements, i + 1, validDirectives)
           ELSE <<>>

\* variant: every leading directive is pushed, the last one first
GetTopLevelDirectives_AllLeading(sourceFile, validDirectives) ==
  LET all == LeadingDirectives(sourceFile.kids, 1, validDirectives)
  IN  [i \in 1..Len(all) |-> all[Len(all) + 1 - i]]

GetTopLevelDirectives(sourceFile, validDirectives) ==
  LET directive == GetFirstDirective(sourceFile.kids, validDirectives)
  IN  IF Truthy(directive) THEN <<directive>> ELSE <<>>

GetDirectiveOfNode(node, validDirectives) ==
  IF IsFunctionLike(node) /\ HasBlockBody(node)
  THEN GetFirstDirective(node.kids[1].kids, validDirectives)
  ELSE IF node.kind = "ArrowFunction" /\ HasBlockBody(node)
  THEN GetFirstDirective(node.kids[1].kids, validDirectives)
  ELSE Null

\* the inline directive if there is one, else the module directive, else none
EffectiveDirective(node, moduleDirective, validDirectives) ==
  LET inlineDirective == GetDirectiveOfNode(node, validDirectives)
  IN  IF Truthy(inlineDirective) THEN inlineDirective
      ELSE IF Truthy(moduleDirective) THEN moduleDirective
      ELSE Null

SetIfTruthy(m, k, v) == IF Truthy(v) THEN MapSet(m, k, v) ELSE m

RECURSIVE CollectVariableDeclarations(_, _, _, _, _)
CollectVariableDeclarations(decls, i, moduleDirective, validDirectives, m) ==
  IF i > Len(decls) THEN m
  ELSE LET decl == decls[i]
           m1 == IF decl.text # <<>> /\ Len(decl.kids) > 0
                 THEN SetIfTruthy(m, decl.text,
                        EffectiveDirective(decl.kids[1], moduleDirective,
                                           validDirectives))
                 ELSE m
       IN  CollectVariableDeclarations(decls, i + 1, moduleDirective,
                                       validDirectives, m1)

RECURSIVE CollectDeclarationDirectives(_, _, _, _)
RECURSIVE CollectChildren(_, _, _, _, _)
CollectDeclarationDirectives(node, moduleDirective, validDirectives, m) ==
  LET m1 == IF node.kind = "FunctionDeclaration" /\ node.text # <<>>
            THEN SetIfTruthy(m, node.text,
                   EffectiveDirective(node, moduleDirective, validDirectives))
            ELSE m
      m2 == IF node.kind = "VariableStatement"
            THEN CollectVariableDeclarations(node.kids, 1, moduleDirective,
                                             validDirectives, m1)
            ELSE m1
  IN  CollectChildren(node.kids, 1, moduleDirective, validDirectives, m2)

CollectChildren(kids, i, moduleDirective, validDirectives, m) ==
  IF i > Len(kids) THEN m
  ELSE CollectChildren(kids, i + 1, moduleDirective, validDirectives,
         CollectDeclarationDirectives(kids[i], moduleDirective,
                                      validDirectives, m))

RECURSIVE VisitVariableDeclarations(_, _, _, _)
VisitVariableDeclarations(decls, i, declarationDirectives, m) ==
  IF i > Len(decls) THEN m
  ELSE LET decl == decls[i]
           m1 == IF decl.text # <<>>
                 THEN SetIfTruthy(m, decl.text,
                                  MapGet(declarationDirectives, decl.text))
                 ELSE m
       IN  VisitVariableDeclarations(decls, i + 1, declarationDirectives, m1)

RECURSIVE VisitExportSpecifiers(_, _, _, _)
VisitExportSpecifiers(elements, i, declarationDirectives, m) ==
  IF i > Len(elements) THEN m
  ELSE LET element == elements[i]
           exportedName == element.text
           localName == IF element.prop # <<>> THEN element.prop ELSE element.text
           m1 == SetIfTruthy(m, exportedName,
                             MapGet(declarationDirectives, localName))
       IN  VisitExportSpecifiers(elements, i + 1, declarationDirectives, m1)

\* mutant: the export modifier is not looked at
VisitFunctionDeclaration_AnyDeclaration(node, declarationDirectives, m) ==
  LET directive == MapGet(declarationDirectives, node.text)
  IN  IF Truthy(directive)
      THEN LET m1 == MapSet(m, node.text, directive)
           IN  IF "default" \in node.mods
               THEN MapSet(m1, DefaultKey, directive)
               ELSE m1
      ELSE m

VisitFunctionDeclaration(node, declarationDirectives, m) ==
  LET directive == MapGet(declarationDirectives, node.text)
  IN  IF "export" \in node.mods /\ Truthy(directive)
      THEN LET m1 == MapSet(m, node.text, directive)
           IN  IF "default" \in node.mods
               THEN MapSet(m1, DefaultKey, directive)
               ELSE m1
      ELSE m

RECURSIVE Visit(_, _, _, _, _)
RECURSIVE VisitChildren(_, _, _, _, _, _)
Visit(node, moduleDirective, validDirectives, declarationDirectives, m) ==
  LET m1 == IF node.kind = "FunctionDeclaration" /\ node.text # <<>>
            THEN VisitFunctionDeclaration(node, declarationDirectives, m)
            ELSE m
      m2 == IF node.kind = "VariableStatement" /\ "export" \in node.mods
            THEN VisitVariableDeclarations(node.kids, 1, declarationDirectives, m1)
            ELSE m1
      m3 == IF node.kind = "ExportAssignment" /\ "exportEquals" \notin node.mods
            THEN SetIfTruthy(m2, DefaultKey,
                   EffectiveDirective(node.kids[1], moduleDirective,
                                      validDirectives))
            ELSE m2
      m4 == IF node.kind = "ExportDeclaration" /\ "star" \notin node.mods
            THEN VisitExportSpecifiers(node.kids, 1, declarationDirectives, m3)
            ELSE m3
  IN  VisitChildren(node.kids, 1, moduleDirective, validDirectives,
                    declarationDirectives, m4)

VisitChildren(kids, i, moduleDirective, validDirectives, declarationDirectives, m) ==
  IF i > Len(kids) THEN m
  ELSE VisitChildren(kids, i + 1, moduleDirective, validDirectives,
         declarationDirectives,
         Visit(kids[i], moduleDirective, validDirectives,
               declarationDirectives, m))

\* the second pass, started once the first pass has filled declarationDirectives
VisitSourceFile(sourceFile, moduleDirective, validDirectives, declarationDirectives) ==
  IF Len(declarationDirectives) >= 0
  THEN Visit(sourceFile, moduleDirective, validDirectives,
             declarationDirectives, <<>>)
  ELSE <<>>

ScanFileDirectives(sourceFile, validDirectives) ==
  LET moduleDirectives == GetTopLevelDirectives(sourceFile, validDirectives)
      moduleDirective ==
        IF Len(moduleDirectives) > 0 THEN moduleDirectives[1] ELSE Null
  IN  [moduleDirectives |-> moduleDirectives,
       exportDirectives |->
         VisitSourceFile(sourceFile, moduleDirective, validDirectives,
           CollectDeclarationDirectives(sourceFile, moduleDirective,
                                        validDirectives, <<>>))]

----------------------------------------------------------------------------
(* Two-tier cache (cache.ts).  The operations act on a record c holding    *)
(* fileCache, exportMap, scannedFiles and the history fields writes and    *)
(* lastSet.                                                                *)

CACHE_SCHEMA_VERSION == 2

Miss == [hit |-> FALSE, moduleDirectives |-> <<>>, exportDirectives |-> <<>>]

WriteEvent(op, file, name) == [op |-> op, file |-> file, name |-> name]

\* mutant: the version comparison is dropped
GetCachedDirectives_NoVersionCheck(fc, ver, sourceFile) ==
  IF sourceFile \notin DOMAIN fc THEN Miss
  ELSE LET cached == fc[sourceFile]
       IN  IF cached.schemaVersion # CACHE_SCHEMA_VERSION THEN Miss
           ELSE [hit |-> TRUE,
                 moduleDirectives |-> cached.moduleDirectives,
                 exportDirectives |-> cached.exportDirectives]

GetCachedDirectives(fc, ver, sourceFile) ==
  IF sourceFile \notin DOMAIN fc THEN Miss
  ELSE LET cached == fc[sourceFile]
       IN  IF cached.schemaVersion # CACHE_SCHEMA_VERSION THEN Miss
           ELSE IF cached.version # ver[sourceFile] THEN Miss
           ELSE [hit |-> TRUE,
                 moduleDirectives |-> cached.moduleDirectives,
                 exportDirectives |-> cached.exportDirectives]

FunSet(f, k, v) == [x \in DOMAIN f \cup {k} |-> IF x = k THEN v ELSE f[x]]
FunDel(f, K) == [x \in DOMAIN f \ K |-> f[x]]

SetCachedDirectives(c, ver, sourceFile, moduleDirectives, exportDirectives) ==
  [c EXCEPT
     !.fileCache = FunSet(@, sourceFile,
                     [moduleDirectives |-> moduleDirectives,
                      exportDirectives |-> exportDirectives,
                      version |-> ver[sourceFile],
                      schemaVersion |-> CACHE_SCHEMA_VERSION]),
     !.lastSet = FunSet(@, sourceFile,
                     [moduleDirectives |-> moduleDirectives,
                      exportDirectives |-> exportDirectives,
                      version |-> ver[sourceFile]]),
     !.writes = @ \cup {WriteEvent("setCachedDirectives", sourceFile, <<>>)}]

ClearCachedDirectives(c, sourceFile) ==
  [c EXCEPT !.fileCache = FunDel(@, {sourceFile}),
            !.lastSet = FunDel(@, {sourceFile}),
            !.writes = @ \cup {WriteEvent("clearCachedDirectives", sourceFile, <<>>)}]

NormalizeFilePath(fileName) ==
  [i \in 1..Len(fileName) |-> IF fileName[i] = "\\" THEN "/" ELSE fileName[i]]

ExportKey(fileName, exportName) ==
  NormalizeFilePath(fileName) \o Separator \o exportName

SetExportDirective(c, fileName, exportName, directive) ==
  [c EXCEPT !.exportMap = FunSet(@, ExportKey(fileName, exportName), directive),
            !.writes = @ \cup {WriteEvent("setExportDirective", fileName, exportName)}]

GetExportDirective(em, fileName, exportName) ==
  LET key == ExportKey(fileName, exportName)
  IN  IF key \in DOMAIN em /\ Truthy(em[key]) THEN em[key] ELSE Null

ClearAllCaches(c) ==
  [c EXCEPT !.exportMap = [k \in {} |-> Null],
            !.writes = @ \cup {WriteEvent("clearAllCaches", <<>>, <<>>)}]

ClearExportDirectives(c, fileName) ==
  LET normalizedPath == NormalizeFilePath(fileName)
      keysToDelete == {key \in DOMAIN c.exportMap :
                         StartsWith(key, normalizedPath \o Separator)}
  IN  [c EXCEPT !.exportMap = FunDel(@, keysToDelete),
                !.writes = @ \cup {WriteEvent("clearExportDirectives", fileName, <<>>)}]

----------------------------------------------------------------------------
(* Host program: the source files of the language service program and the  *)
(* content each one has under a given content-version token.               *)

FileA == <<"a">>
FileB == <<"b">>
\* program.getSourceFiles(), in order
ProgramFiles == <<FileA, FileB>>
FileSet == {ProgramFiles[i] : i \in 1..Len(ProgramFiles)}

\* number of distinct content-version tokens the host presents
MaxVersion == 2
Versions == 1..MaxVersion
Digits == <<"1","2","3","4","5","6","7","8","9">>
\* the token as it appears in a template string
TokenString(v) == <<Digits[v]>>

NodeModules == <<"n","o","d","e","_","m","o","d","u","l","e","s">>
DeclarationSuffix == <<".","d",".","t","s">>

HasSubstring(s, sub) ==
  \E i \in 0..(Len(s) - Len(sub)) : SubSeq(s, i + 1, i + Len(sub)) = sub

EndsWith(s, suffix) ==
  Len(suffix) <= Len(s) /\ SubSeq(s, Len(s) - Len(suffix) + 1, Len(s)) = suffix

\* the module a file holds under token v: bit 0 of v-1 puts "use server" at
\* the top, bit 1 puts "use client" into the body of a, bit 2 makes a the
\* default export; every module imports d and { a as x } from file b
ModuleOf(v) ==
  LET n == v - 1
      moduleDirective ==
        IF n % 2 = 1 THEN <<ExpressionStatement(StringLiteral(UseServer))>>
        ELSE <<>>
      inlineDirective ==
        IF (n \div 2) % 2 = 1 THEN <<ExpressionStatement(StringLiteral(UseClient))>>
        ELSE <<>>
      mods == IF (n \div 4) % 2 = 1 THEN {"export", "default"} ELSE {"export"}
  IN  SourceFile(moduleDirective \o
        <<ImportDeclaration(FileB, {"default"},
                            <<ImportSpecifier(<<"x">>, <<"a">>)>>),
          FunctionDeclaration(<<"a">>, mods, inlineDirective \o <<OtherStatement>>)>>)

\* getValidDirectives(program): the keys of DirectiveRegistry
GetValidDirectives == BuiltinDirectives

\* the scan of each content the host can present
ScanOfVersion == [v \in Versions |-> ScanFileDirectives(ModuleOf(v), GetValidDirectives)]

ScanFile(ver, fileName) == ScanOfVersion[ver[fileName]]

\* ts.resolveModuleName: the resolved file name, or null
ResolveModuleName(moduleName, containingFile) ==
  IF moduleName \in FileSet THEN moduleName ELSE Null

----------------------------------------------------------------------------
(* Plugin entry points (index.ts, hints.ts, hover.ts) *)

EmptyMap == [k \in {} |-> Null]

RECURSIVE PublishExports(_, _, _, _)
PublishExports(c, fileName, exportDirectives, i) ==
  IF i > Len(exportDirectives) THEN c
  ELSE PublishExports(
         SetExportDirective(c, fileName, exportDirectives[i][1],
                            exportDirectives[i][2]),
         fileName, exportDirectives, i + 1)

\* the part of ensureFileScanned after the scan: setCachedDirectives, then
\* setExportDirective for every entry of exportDirectives
StoreScan(c, ver, fileName, scanned) ==
  PublishExports(
    SetCachedDirectives(c, ver, fileName, scanned.moduleDirectives,
                        scanned.exportDirectives),
    fileName, scanned.exportDirectives, 1)

\* history of the running handler: the call is recorded before it acts
NoteEnsure(c, ver, fileName) ==
  [c EXCEPT !.lastEnsure[fileName] = ver[fileName],
            !.ensured = @ \cup {fileName},
            !.repeated = @ \cup (IF c.lastEnsure[fileName] = ver[fileName]
                                 THEN {fileName} ELSE {}),
            !.changed = @ \cup (IF c.lastEnsure[fileName] \notin {0, ver[fileName]}
                                THEN {fileName} ELSE {})]

\* scannedFiles.add(cacheKey)
MarkScanned(c, cacheKey) == [c EXCEPT !.scannedFiles = @ \cup {cacheKey}]

CacheKey(ver, fileName) == fileName \o Separator \o TokenString(ver[fileName])

\* mutant: the file is never marked as scanned
EnsureFileScanned_NoMark(c, ver, fileName) ==
  IF CacheKey(ver, fileName) \in c.scannedFiles
  THEN NoteEnsure(c, ver, fileName)
  ELSE StoreScan(ClearExportDirectives(NoteEnsure(c, ver, fileName), fileName),
                 ver, fileName, ScanFile(ver, fileName))

EnsureFileScanned(c, ver, fileName) ==
  IF CacheKey(ver, fileName) \in c.scannedFiles
  THEN NoteEnsure(c, ver, fileName)
  ELSE MarkScanned(
         StoreScan(ClearExportDirectives(NoteEnsure(c, ver, fileName), fileName),
                   ver, fileName, ScanFile(ver, fileName)),
         CacheKey(ver, fileName))

IsSkipped(fileName) ==
  EndsWith(fileName, DeclarationSuffix) \/ HasSubstring(fileName, NodeModules)

RECURSIVE EnsureAllFrom(_, _, _)
EnsureAllFrom(c, ver, i) ==
  IF i > Len(ProgramFiles) THEN c
  ELSE EnsureAllFrom(IF IsSkipped(ProgramFiles[i]) THEN c
                     ELSE EnsureFileScanned(c, ver, ProgramFiles[i]),
                     ver, i + 1)

\* history of the running handler: the writes done so far are those of
\* ensureAllFilesScanned
NoteEnsureWrites(c) == [c EXCEPT !.ensureWrites = c.writes]

EnsureAllFilesScanned(c, ver) == NoteEnsureWrites(EnsureAllFrom(c, ver, 1))

CacheScan(c, ver, fileName, scanned) ==
  SetCachedDirectives(c, ver, fileName, scanned.moduleDirectives,
                      scanned.exportDirectives)

\* getCachedDirectives(sourceFile), and on a miss scan and setCachedDirectives
GetOrScan(c, ver, fileName) ==
  IF GetCachedDirectives(c.fileCache, ver, fileName).hit THEN c
  ELSE CacheScan(c, ver, fileName, ScanFile(ver, fileName))

\* history of the running handler: the lookup found nothing in the export
\* index and scanned the imported file
NoteMiss(c, resolvedModule) ==
  [c EXCEPT !.missed = @ \cup {resolvedModule}]

\* the lookup done for one imported binding: the export index first, and on
\* a miss a scan of the imported file, stored in the per-file cache only
LookupImport(c, ver, resolvedModule, exportedName) ==
  IF Truthy(GetExportDirective(c.exportMap, resolvedModule, exportedName))
  THEN c
  ELSE IF resolvedModule \in FileSet
  THEN NoteMiss(CacheScan(c, ver, resolvedModule, ScanFile(ver, resolvedModule)),
                resolvedModule)
  ELSE c

\* scanned.exportDirectives.get(name) || null
ScannedDirective(scanned, exportedName) ==
  IF Truthy(MapGet(scanned.exportDirectives, exportedName))
  THEN MapGet(scanned.exportDirectives, exportedName)
  ELSE Null

\* the directive the lookup yields
ImportedDirective(c, ver, resolvedModule, exportedName) ==
  IF Truthy(GetExportDirective(c.exportMap, resolvedModule, exportedName))
  THEN GetExportDirective(c.exportMap, resolvedModule, exportedName)
  ELSE IF resolvedModule \in FileSet
  THEN ScannedDirective(ScanFile(ver, resolvedModule), exportedName)
  ELSE Null

ExportedNameOf(element) == IF element.prop # <<>> THEN element.prop ELSE element.text

RECURSIVE LookupNamedImports(_, _, _, _, _)
LookupNamedImports(c, ver, resolvedModule, elements, i) ==
  IF i > Len(elements) THEN c
  ELSE LookupNamedImports(
         LookupImport(c, ver, resolvedModule, ExportedNameOf(elements[i])),
         ver, resolvedModule, elements, i + 1)

\* the default import of a declaration, if it has one
LookupDefaultImport(c, ver, resolvedModule, node) ==
  IF "default" \in node.mods
  THEN LookupImport(c, ver, resolvedModule, DefaultKey)
  ELSE c

LookupImports(c, ver, resolvedModule, node) ==
  LookupDefaultImport(LookupNamedImports(c, ver, resolvedModule, node.kids, 1),
                      ver, resolvedModule, node)

AddImportHintsForDeclaration(c, ver, fileName, node) ==
  IF ResolveModuleName(node.text, fileName) = Null THEN c
  ELSE LookupImports(c, ver, ResolveModuleName(node.text, fileName), node)

RECURSIVE AddImportHintsFrom(_, _, _, _, _)
AddImportHintsFrom(c, ver, fileName, statements, i) ==
  IF i > Len(statements) THEN c
  ELSE AddImportHintsFrom(
         IF statements[i].kind = "ImportDeclaration"
         THEN AddImportHintsForDeclaration(c, ver, fileName, statements[i])
         ELSE c,
         ver, fileName, statements, i + 1)

AddImportHints(c, ver, fileName) ==
  AddImportHintsFrom(c, ver, fileName, ModuleOf(ver[fileName]).kids, 1)

ProvideInlayHints(c, ver, fileName) ==
  AddImportHints(GetOrScan(c, ver, fileName), ver, fileName)

\* the imported bindings of a file: <<resolved module, exported name>>
ImportBindings(ver, fileName) ==
  LET statements == ModuleOf(ver[fileName]).kids
      imports == {i \in 1..Len(statements) :
                    /\ statements[i].kind = "ImportDeclaration"
                    /\ ResolveModuleName(statements[i].text, fileName) # Null}
  IN  UNION {
        {<<ResolveModuleName(statements[i].text, fileName),
           ExportedNameOf(statements[i].kids[j])>> :
             j \in 1..Len(statements[i].kids)}
        \cup (IF "default" \in statements[i].mods
              THEN {<<ResolveModuleName(statements[i].text, fileName), DefaultKey>>}
              ELSE {}) : i \in imports}

\* hover over the identifier of an imported binding
GetQuickInfoAtPosition(c, ver, fileName, binding) ==
  LookupImport(GetOrScan(c, ver, fileName), ver, binding[1], binding[2])

----------------------------------------------------------------------------
(* State machine of the plugin *)

CacheState ==
  [fileCache |-> fileCache, exportMap |-> exportMap,
   scannedFiles |-> scannedFiles, lastSet |-> lastSet,
   lastEnsure |-> lastEnsure,
   \* history of the running handler: all writes, the files ensureFileScanned
   \* was called for, those whose token was the one of the previous call,
   \* those whose token had changed, the writes done by ensureAllFilesScanned,
   \* the modules whose import lookup missed the export index
   writes |-> {}, ensured |-> {}, repeated |-> {}, changed |-> {},
   ensureWrites |-> {}, missed |-> {}]

OpRecord(op) ==
  [op |-> op, file |-> <<>>, name |-> <<>>, ensured |-> {}, repeated |-> {},
   changed |-> {}, ensureWrites |-> {}, missed |-> {}]
ApiOp(op, fileName, exportName) ==
  [OpRecord(op) EXCEPT !.file = fileName, !.name = exportName]
NoOp == OpRecord("init")

Commit(c, op) ==
  /\ fileCache' = c.fileCache
  /\ exportMap' = c.exportMap
  /\ scannedFiles' = c.scannedFiles
  /\ lastSet' = c.lastSet
  /\ lastEnsure' = c.lastEnsure
  /\ writes' = c.writes
  /\ lastOp' = [OpRecord(op) EXCEPT !.ensured = c.ensured,
                                     !.repeated = c.repeated,
                                     !.changed = c.changed,
                                     !.ensureWrites = c.ensureWrites,
                                     !.missed = c.missed]


Init ==
  /\ version \in [FileSet -> Versions]
  /\ fileCache = EmptyMap
  /\ exportMap = EmptyMap
  /\ scannedFiles = {}
  /\ lastOp = NoOp
  /\ writes = {}
  /\ lastEnsure = [f \in FileSet |-> 0]
  /\ lastSet = EmptyMap
  /\ arg = <<>>
  /\ res = <<>>

\* the host replaces the content of a file; the new SourceFile is either the
\* same object with a new version or a new object the cache has never seen
HostEdit(fileName, v, newObject) ==
  /\ v # version[fileName]
  /\ version' = [version EXCEPT ![fileName] = v]
  /\ fileCache' = IF newObject THEN FunDel(fileCache, {fileName}) ELSE fileCache
  /\ lastSet' = IF newObject THEN FunDel(lastSet, {fileName}) ELSE lastSet
  /\ lastOp' = OpRecord("hostEdit")
  /\ writes' = {}
  /\ UNCHANGED <<exportMap, scannedFiles, lastEnsure, arg, res>>

\* proxy.getSemanticDiagnostics: ensureAllFilesScanned, then the diagnostics
ProxyGetSemanticDiagnostics(fileName) ==
  /\ Commit(EnsureAllFilesScanned(CacheState, version), "query")
  /\ UNCHANGED <<version, arg, res>>

\* proxy.provideInlayHints
ProxyProvideInlayHints(fileName) ==
  /\ Commit(ProvideInlayHints(EnsureAllFilesScanned(CacheState, version),
                              version, fileName),
            "query")
  /\ UNCHANGED <<version, arg, res>>

\* proxy.getQuickInfoAtPosition
ProxyGetQuickInfoAtPosition(fileName, binding) ==
  /\ Commit(GetQuickInfoAtPosition(EnsureAllFilesScanned(CacheState, version),
                                   version, fileName, binding),
            "query")
  /\ UNCHANGED <<version, arg, res>>

Next ==
  \/ \E f \in FileSet, v \in Versions, o \in BOOLEAN : HostEdit(f, v, o)
  \/ \E f \in FileSet : ProxyGetSemanticDiagnostics(f)
  \/ \E f \in FileSet : ProxyProvideInlayHints(f)
  \/ \E f \in FileSet : \E b \in ImportBindings(version, f) :
       ProxyGetQuickInfoAtPosition(f, b)

Spec == Init /\ [][Next]_vars

----------------------------------------------------------------------------
(* Properties of the plugin's cache coherence *)

ExportNames == {<<"a">>, DefaultKey}

\* what a consumer of the index sees for file f is what a scan of f's
\* current content assigns
IndexConsistent(f) ==
  \A n \in ExportNames :
     GetExportDirective(exportMap, f, n) =
       (LET d == MapGet(ScanFile(version, f).exportDirectives, n)
        IN  IF Truthy(d) THEN d ELSE Null)

WritesFor(events, f) == {e \in events : e.file = f}

\* C1: after every host query, for every module M and export name n,
\* getExportDirective(M, n) is the directive a scan of M's current content
\* assigns to n (null when it assigns none)
C1_IndexMatchesScan ==
  lastOp.op = "query" => \A f \in FileSet : IndexConsistent(f)

\* C2: an ensureFileScanned call that finds the file's token different from
\* the one its previous call saw clears the file's index entries, rescans,
\* and leaves in the index exactly the exportDirectives of the new scan
C2_RescanOnTokenChange ==
  \A f \in lastOp.changed :
     /\ WriteEvent("clearExportDirectives", f, <<>>) \in lastOp.ensureWrites
     /\ WriteEvent("setCachedDirectives", f, <<>>) \in lastOp.ensureWrites
     /\ IndexConsistent(f)

----------------------------------------------------------------------------
(* The per-file cache driven through its exported functions *)

\* results a caller may hand to setCachedDirectives
CacheResults ==
  {[moduleDirectives |-> md, exportDirectives |-> ed] :
     md \in {<<>>, <<UseServer>>},
     ed \in {<<>>, << <<(<<"a">>), UseServer>> >>, << <<(<<"a">>), UseClient>> >>}}

ApiSetCachedDirectives(sourceFile, result) ==
  LET c == SetCachedDirectives(CacheState, version, sourceFile,
                               result.moduleDirectives, result.exportDirectives)
  IN  /\ fileCache' = c.fileCache
      /\ lastSet' = c.lastSet
      /\ writes' = c.writes
      /\ lastOp' = ApiOp("setCachedDirectives", sourceFile, <<>>)
      /\ UNCHANGED <<version, exportMap, scannedFiles, lastEnsure, arg, res>>

ApiGetCachedDirectives(sourceFile) ==
  /\ res' = GetCachedDirectives(fileCache, version, sourceFile)
  /\ lastOp' = ApiOp("getCachedDirectives", sourceFile, <<>>)
  /\ writes' = {}
  /\ UNCHANGED <<version, fileCache, exportMap, scannedFiles, lastEnsure,
                 lastSet, arg>>

ApiClearCachedDirectives(sourceFile) ==
  LET c == ClearCachedDirectives(CacheState, sourceFile)
  IN  /\ fileCache' = c.fileCache
      /\ lastSet' = c.lastSet
      /\ writes' = c.writes
      /\ lastOp' = ApiOp("clearCachedDirectives", sourceFile, <<>>)
      /\ UNCHANGED <<version, exportMap, scannedFiles, lastEnsure, arg, res>>

FileCacheNext ==
  \/ \E f \in FileSet, v \in Versions, o \in BOOLEAN : HostEdit(f, v, o)
  \/ \E f \in FileSet, r \in CacheResults : ApiSetCachedDirectives(f, r)
  \/ \E f \in FileSet : ApiGetCachedDirectives(f)
  \/ \E f \in FileSet : ApiClearCachedDirectives(f)

FileCacheSpec == Init /\ [][FileCacheNext]_vars

\* what getCachedDirectives must return for f according to the history of
\* setCachedDirectives calls
ExpectedCached(f) ==
  IF f \in DOMAIN lastSet /\ lastSet[f].version = version[f]
  THEN [hit |-> TRUE,
        moduleDirectives |-> lastSet[f].moduleDirectives,
        exportDirectives |-> lastSet[f].exportDirectives]
  ELSE Miss

\* C4: getCachedDirectives(file) returns what the most recent
\* setCachedDirectives(file, ...) stored exactly when such an entry exists
\* and was stored under the file's current version token (and the current
\* schema version); otherwise it is a miss
C4_CacheHitIffCurrent ==
  /\ \A f \in FileSet :
        GetCachedDirectives(fileCache, version, f) = ExpectedCached(f)
  /\ lastOp.op = "getCachedDirectives" => res = ExpectedCached(lastOp.file)
  /\ \A f \in DOMAIN fileCache : fileCache[f].schemaVersion = CACHE_SCHEMA_VERSION

\* C4 witness: a lookup that misses on a stale entry while another file has
\* a current one
C4_Witness ==
  /\ lastOp.op = "getCachedDirectives"
  /\ lastOp.file \in DOMAIN lastSet
  /\ lastSet[lastOp.file].version # version[lastOp.file]
  /\ res = Miss
  /\ \E g \in FileSet : GetCachedDirectives(fileCache, version, g).hit

----------------------------------------------------------------------------
(* The export index driven through its exported functions *)

FileAB == <<"a", ":", ":", "b">>
FileCD == <<"c", "/", "d">>
FileCDWindows == <<"c", "\\", "d">>
ApiFileNames == {FileA, FileAB, FileCD, FileCDWindows}
NameF == <<"f">>
NameBF == <<"b", ":", ":", "f">>
ApiExportNames == {NameF, NameBF}
ApiDirectives == {UseServer, UseClient}

ApiSetExportDirective(fileName, exportName, directive) ==
  LET c == SetExportDirective(CacheState, fileName, exportName, directive)
  IN  /\ exportMap' = c.exportMap
      /\ writes' = c.writes
      /\ lastOp' = ApiOp("setExportDirective", fileName, exportName)
      /\ UNCHANGED <<version, fileCache, scannedFiles, lastEnsure, lastSet, arg, res>>

ApiGetExportDirective(fileName, exportName) ==
  /\ res' = GetExportDirective(exportMap, fileName, exportName)
  /\ lastOp' = ApiOp("getExportDirective", fileName, exportName)
  /\ writes' = {}
  /\ UNCHANGED <<version, fileCache, exportMap, scannedFiles, lastEnsure,
                 lastSet, arg>>

ApiClearExportDirectives(fileName) ==
  LET c == ClearExportDirectives(CacheState, fileName)
  IN  /\ exportMap' = c.exportMap
      /\ writes' = c.writes
      /\ lastOp' = ApiOp("clearExportDirectives", fileName, <<>>)
      /\ UNCHANGED <<version, fileCache, scannedFiles, lastEnsure, lastSet, arg, res>>

ApiClearAllCaches ==
  LET c == ClearAllCaches(CacheState)
  IN  /\ exportMap' = c.exportMap
      /\ writes' = c.writes
      /\ lastOp' = ApiOp("clearAllCaches", <<>>, <<>>)
      /\ UNCHANGED <<version, fileCache, scannedFiles, lastEnsure, lastSet, arg, res>>

IndexNext ==
  \/ \E f \in ApiFileNames, n \in ApiExportNames, d \in ApiDirectives :
       ApiSetExportDirective(f, n, d)
  \/ \E f \in ApiFileNames, n \in ApiExportNames : ApiGetExportDirective(f, n)
  \/ \E f \in ApiFileNames : ApiClearExportDirectives(f)
  \/ ApiClearAllCaches

IndexSpec == Init /\ [][IndexNext]_vars

\* C5: clearExportDirectives(M) removes every entry of M and changes no
\* entry of any other module
C5_ClearLeavesOtherModules ==
  [][lastOp'.op = "clearExportDirectives" =>
       \A f \in ApiFileNames, n \in ApiExportNames :
          IF NormalizeFilePath(f) = NormalizeFilePath(lastOp'.file)
          THEN GetExportDirective(exportMap', f, n) = Null
          ELSE GetExportDirective(exportMap', f, n) =
                 GetExportDirective(exportMap, f, n)]_vars

\* C29: setExportDirective for one (module identity, export name) pair
\* changes the entry of no other pair; identities that differ only in
\* backslash versus forward slash are the same identity
C29_SetLeavesOtherPairs ==
  [][lastOp'.op = "setExportDirective" =>
       \A f \in ApiFileNames, n \in ApiExportNames :
          (\/ NormalizeFilePath(f) # NormalizeFilePath(lastOp'.file)
           \/ n # lastOp'.name)
          => GetExportDirective(exportMap', f, n) =
               GetExportDirective(exportMap, f, n)]_vars

----------------------------------------------------------------------------
(* Suggestion engine (diagnostics.ts) *)

Min2(x, y) == IF x <= y THEN x ELSE y
Max2(x, y) == IF x >= y THEN x ELSE y

\* fills row i of the matrix left to right; cur[j + 1] is matrix[i][j] and
\* prev[j + 1] is matrix[i - 1][j]
RECURSIVE LevenshteinRow(_, _, _, _, _)
LevenshteinRow(prev, i, a, b, cur) ==
  IF Len(cur) = Len(a) + 1 THEN cur
  ELSE LET j == Len(cur)
           cell == IF b[i] = a[j]
                   THEN prev[j]
                   ELSE Min2(prev[j] + 1, Min2(cur[j] + 1, prev[j + 1] + 1))
       IN  LevenshteinRow(prev, i, a, b, Append(cur, cell))

RECURSIVE LevenshteinRows(_, _, _, _)
LevenshteinRows(prev, i, a, b) ==
  IF i > Len(b) THEN prev
  ELSE LevenshteinRows(LevenshteinRow(prev, i, a, b, <<i>>), i + 1, a, b)

\* mutant: row 0 of the matrix is left at zero
LevenshteinDistance_ZeroFirstRow(a, b) ==
  LevenshteinRows([j \in 1..(Len(a) + 1) |-> 0], 1, a, b)[Len(a) + 1]

LevenshteinDistance(a, b) ==
  LevenshteinRows([j \in 1..(Len(a) + 1) |-> j - 1], 1, a, b)[Len(a) + 1]

\* Math.ceil(n * 0.2) for a string length n
CeilFifth(n) == (n + 4) \div 5

\* mutant: the threshold is fixed at 3 edits
MaxDistance_Fixed(input) == 3

\* Math.max(2, Math.min(3, Math.ceil(input.length * 0.2)))
MaxDistance(input) == Max2(2, Min2(3, CeilFifth(Len(input))))

\* Array.prototype.sort with (a, b) => a.distance - b.distance: stable
SortByDistance(distances) ==
  LET n == Len(distances)
      Before(j, i) ==
        \/ distances[j].distance < distances[i].distance
        \/ distances[j].distance = distances[i].distance /\ j < i
      Rank(i) == Cardinality({j \in 1..n : Before(j, i)}) + 1
  IN  [k \in 1..n |-> distances[CHOOSE i \in 1..n : Rank(i) = k]]

DefaultMaxSuggestions == 3

FindClosestDirectives(input, validDirectives, maxSuggestions) ==
  LET distances ==
        [i \in 1..Len(validDirectives) |->
           [directive |-> validDirectives[i],
            distance |-> LevenshteinDistance(input, validDirectives[i])]]
      sorted == SortByDistance(distances)
      maxDistance == MaxDistance(input)
      close == SelectSeq(sorted, LAMBDA d : d.distance <= maxDistance)
      top == SubSeq(close, 1, Min2(maxSuggestions, Len(close)))
  IN  [i \in 1..Len(top) |-> top[i].directive]

----------------------------------------------------------------------------
(* Runs of the pure functions: the inputs are drawn in the initial state,  *)
(* one step applies the function.                                          *)

\* longest vocabulary drawn
MaxVocab == 3
\* longest free string drawn
MaxLen == 3

Idle ==
  /\ version = [f \in FileSet |-> 1]
  /\ fileCache = EmptyMap
  /\ exportMap = EmptyMap
  /\ scannedFiles = {}
  /\ lastOp = NoOp
  /\ writes = {}
  /\ lastEnsure = [f \in FileSet |-> 0]
  /\ lastSet = EmptyMap
  /\ res = <<>>

Apply(op, result) ==
  /\ lastOp.op = "init"
  /\ res' = result
  /\ lastOp' = OpRecord(op)
  /\ UNCHANGED <<version, fileCache, exportMap, scannedFiles, writes,
                 lastEnsure, lastSet, arg>>

SeqsUpTo(S, n) == UNION {[1..k -> S] : k \in 0..n}

IsInjective(q) == \A i, j \in 1..Len(q) : q[i] = q[j] => i = j

(* matchDirective *)

UseCache == <<"u","s","e"," ","c","a","c","h","e">>
UseCacheMemory == UseCache \o <<":"," ","m","e","m","o","r","y">>
OptionsSuffix == <<";"," ","x","=","1">>
ProviderSuffix == <<":"," ","p">>
UseCacheOptions == UseCache \o OptionsSuffix
UseCacheMemoryOptions == UseCacheMemory \o OptionsSuffix

MatchNames ==
  {UseServer, UseCache, UseCacheMemory, UseCacheOptions, UseCacheMemoryOptions}

\* a DirectiveRegistry entry: the key and whether its type is not `never`
DirectiveSpecs == [name : MatchNames, acceptsOptions : BOOLEAN]

NamesOf(vocabulary) == [i \in 1..Len(vocabulary) |-> vocabulary[i].name]

Vocabularies ==
  {v \in SeqsUpTo(DirectiveSpecs, MaxVocab) : Len(v) > 0 /\ IsInjective(NamesOf(v))}

\* names, names with a suffix, names followed by a letter or by a marker
\* alone, and a text that starts with no name
MatchTexts ==
  MatchNames \cup {n \o OptionsSuffix : n \in MatchNames}
             \cup {n \o ProviderSuffix : n \in MatchNames}
             \cup {n \o <<"d">> : n \in MatchNames}
             \cup {n \o <<":">> : n \in MatchNames}
             \cup {<<"h","e","l","l","o">>}

MatchInit ==
  /\ Idle
  /\ arg \in [text : MatchTexts, vocabulary : Vocabularies]

ApplyMatchDirective ==
  Apply("matchDirective", MatchDirective(arg.text, NamesOf(arg.vocabulary)))

MatchNext == ApplyMatchDirective

MatchSpec == MatchInit /\ [][MatchNext]_vars

Matched == lastOp.op = "matchDirective"

\* C6: a text that is a vocabulary name matches itself, also when another
\* vocabulary entry is a structural prefix of it
C6_ExactSelfMatch ==
  (Matched /\ Includes(NamesOf(arg.vocabulary), arg.text)) => res = arg.text

\* C6 witness: the text is a vocabulary name and an earlier entry of the
\* vocabulary is a structural prefix of it
C6_Witness ==
  /\ Matched
  /\ res = arg.text
  /\ \E i, j \in 1..Len(arg.vocabulary) :
        /\ j < i
        /\ arg.vocabulary[i].name = arg.text
        /\ IsStructuralPrefix(arg.vocabulary[j].name, arg.text)

\* C7: a name whose spec does not accept a provider/options suffix,
\* followed by "; x=1", matches nothing
C7_NoOptionsNoMatch ==
  Matched =>
    \A i \in 1..Len(arg.vocabulary) :
       (/\ ~arg.vocabulary[i].acceptsOptions
        /\ arg.text = arg.vocabulary[i].name \o OptionsSuffix) => res = Null

\* C8 as stated: a name d that accepts a suffix, followed by "; x=1" or
\* ": p", matches d in every vocabulary containing d
C8_OptionsMatchBase ==
  Matched =>
    \A i \in 1..Len(arg.vocabulary) :
       (/\ arg.vocabulary[i].acceptsOptions
        /\ arg.text \in {arg.vocabulary[i].name \o OptionsSuffix,
                         arg.vocabulary[i].name \o ProviderSuffix})
       => res = arg.vocabulary[i].name

\* C8 amended: ... matches d unless the suffixed text is itself a
\* vocabulary name or a name listed before d is a structural prefix of it
C8_OptionsMatchFirstBase ==
  Matched =>
    \A i \in 1..Len(arg.vocabulary) :
       (/\ arg.vocabulary[i].acceptsOptions
        /\ arg.text \in {arg.vocabulary[i].name \o OptionsSuffix,
                         arg.vocabulary[i].name \o ProviderSuffix}
        /\ ~Includes(NamesOf(arg.vocabulary), arg.text)
        /\ \A j \in 1..(i - 1) :
              ~IsStructuralPrefix(arg.vocabulary[j].name, arg.text))
       => res = arg.vocabulary[i].name

\* C8 witness: d accepts a suffix, stands behind another entry that is no
\* structural prefix of the text, and d ": p" matched d
C8_Witness ==
  /\ Matched
  /\ \E i \in 2..Len(arg.vocabulary) :
        /\ arg.vocabulary[i].acceptsOptions
        /\ arg.text = arg.vocabulary[i].name \o ProviderSuffix
        /\ res = arg.vocabulary[i].name

\* the text starts with name b, followed by optional whitespace, a marker
\* and at least one further character
QualifiesAsPrefix(b, text) ==
  /\ StartsWith(text, b)
  /\ LET rest == Slice(text, Len(b))
     IN  \E k \in 0..(Len(rest) - 2) :
            /\ \A i \in 1..k : IsWhitespace(rest[i])
            /\ IsMarker(rest[k + 1])

QualifyingNames(text, names) ==
  {i \in 1..Len(names) : QualifiesAsPrefix(names[i], text)}

\* the parts of C25 that do not concern the order of qualifying names
MatchIsStructural ==
  LET names == NamesOf(arg.vocabulary)
  IN  /\ res = Null \/ Includes(names, res)
      /\ res # Null => (arg.text = res \/ QualifiesAsPrefix(res, arg.text))
      /\ (\A i \in 1..Len(names) :
             arg.text # names[i] /\ ~QualifiesAsPrefix(names[i], arg.text))
           => res = Null

Letters == {"a", "b"}
Strings == SeqsUpTo(Letters, MaxLen)

LevInit ==
  /\ Idle
  /\ arg \in [a : Strings, b : Strings, c : Strings]

ApplyLevenshtein ==
  Apply("levenshteinDistance",
        [ab |-> LevenshteinDistance(arg.a, arg.b),
         ba |-> LevenshteinDistance(arg.b, arg.a),
         bc |-> LevenshteinDistance(arg.b, arg.c),
         ac |-> LevenshteinDistance(arg.a, arg.c),
         aa |-> LevenshteinDistance(arg.a, arg.a),
         a0 |-> LevenshteinDistance(arg.a, <<>>)])

LevNext == ApplyLevenshtein

LevSpec == LevInit /\ [][LevNext]_vars

\* C9: levenshteinDistance is symmetric, satisfies the triangle inequality,
\* is 0 on equal strings and is the length against the empty string
C9_LevenshteinMetric ==
  lastOp.op = "levenshteinDistance" =>
    /\ res.ab = res.ba
    /\ res.ac <= res.ab + res.bc
    /\ res.aa = 0
    /\ res.a0 = Len(arg.a)

\* C9 witness: three different strings of full length where the triangle
\* inequality is tight
C9_Witness ==
  /\ lastOp.op = "levenshteinDistance"
  /\ Len(arg.a) = MaxLen /\ Len(arg.b) = MaxLen /\ Len(arg.c) = MaxLen
  /\ res.ab > 0 /\ res.bc > 0
  /\ res.ac = res.ab + res.bc

(* findClosestDirectives *)

\* nine characters in front of a short string: inputs longer than ten
\* characters take the larger threshold
Pad == <<"u","s","e"," ","c","a","c","h","e">>
Paddings == {<<>>, Pad}

SuggestInputs == {p \o t : p \in Paddings, t \in Strings}

SuggestNames ==
  {<<"a","a">>, Pad \o <<"a","a","a">>, Pad \o <<"b","b","b">>,
   Pad \o <<"c","c","c">>}

SuggestVocabularies ==
  {v \in SeqsUpTo(SuggestNames, MaxVocab) : IsInjective(v)}

SuggestInit ==
  /\ Idle
  /\ arg \in [input : SuggestInputs, vocabulary : SuggestVocabularies,
              maxSuggestions : 1..DefaultMaxSuggestions]

ApplyFindClosestDirectives ==
  Apply("findClosestDirectives",
        FindClosestDirectives(arg.input, arg.vocabulary, arg.maxSuggestions))

SuggestNext == ApplyFindClosestDirectives

SuggestSpec == SuggestInit /\ [][SuggestNext]_vars

Suggested == lastOp.op = "findClosestDirectives"

\* edit distance by the textbook recurrence, for stating the properties
RECURSIVE EditDistance(_, _)
EditDistance(s, t) ==
  IF s = <<>> THEN Len(t)
  ELSE IF t = <<>> THEN Len(s)
  ELSE IF Head(s) = Head(t) THEN EditDistance(Tail(s), Tail(t))
  ELSE 1 + Min2(EditDistance(Tail(s), Tail(t)),
                Min2(EditDistance(Tail(s), t), EditDistance(s, Tail(t))))

\* max(2, min(3, ceil(length * 0.2))) as a table
Threshold(input) == IF Len(input) <= 10 THEN 2 ELSE 3

InResult(name) == \E k \in 1..Len(res) : res[k] = name

----------------------------------------------------------------------------
(* Diagnostics (diagnostics.ts).  The pass threads a record d holding the   *)
(* diagnostics pushed so far and the validDirectives array, which           *)
(* checkDirective sorts in place.                                           *)

\* UTF-16 order of the characters that occur in directive names
CharOrder ==
  <<" ", "a", "b", "c", "d", "e", "f", "g", "h", "i", "j", "k", "l", "m",
    "n", "o", "p", "q", "r", "s", "t", "u", "v", "w", "x", "y", "z">>
CharCode(ch) == CHOOSE k \in 1..Len(CharOrder) : CharOrder[k] = ch

\* a < b as Array.prototype.sort() without a comparator orders strings
StringLess(a, b) ==
  \E k \in 1..(Len(b)) :
     /\ \A j \in 1..(k - 1) : j <= Len(a) /\ a[j] = b[j]
     /\ k - 1 <= Len(a)
     /\ (k > Len(a) \/ CharCode(a[k]) < CharCode(b[k]))

\* validDirectives.sort()
SortStrings(list) ==
  LET n == Len(list)
      Before(j, i) == StringLess(list[j], list[i]) \/ (list[j] = list[i] /\ j < i)
      Rank(i) == Cardinality({j \in 1..n : Before(j, i)}) + 1
  IN  [k \in 1..n |-> list[CHOOSE i \in 1..n : Rank(i) = k]]

UsePrefix == <<"u","s","e"," ">>
Use == <<"u","s","e">>

\* text.startsWith("use ")
IsDirectiveLike(text) == StartsWith(text, UsePrefix)

\* the longest prefix of s without ":" and ";"
RECURSIVE UpToMarker(_)
UpToMarker(s) ==
  IF s = <<>> \/ IsMarker(Head(s)) THEN <<>>
  ELSE <<Head(s)>> \o UpToMarker(Tail(s))

\* String.prototype.trim on a string that starts with a letter
RECURSIVE TrimEnd(_)
TrimEnd(s) ==
  IF s # <<>> /\ IsWhitespace(s[Len(s)]) THEN TrimEnd(SubSeq(s, 1, Len(s) - 1))
  ELSE s

\* text.match(/^use\s+([^:;]+)/): match[0].trim(), or Null without a match
BaseDirective(text) ==
  IF /\ StartsWith(text, Use)
     /\ Len(text) > Len(Use)
     /\ IsWhitespace(text[Len(Use) + 1])
     /\ Len(UpToMarker(Slice(text, Len(Use)))) >= 2
  THEN TrimEnd(Use \o UpToMarker(Slice(text, Len(Use))))
  ELSE Null

IsValidDirectiveType(text, validDirectives) ==
  BaseDirective(text) # Null /\ Includes(validDirectives, BaseDirective(text))

\* the shipped DirectiveRegistry: every key is typed never
BuiltinRegistry ==
  [i \in 1..Len(BuiltinDirectives) |->
     [name |-> BuiltinDirectives[i], acceptsOptions |-> FALSE]]

\* getValidDirectives of diagnostics.ts: the registry keys in declaration
\* order; nothing when the interface is not found or the type checker throws
GetRegistryDirectives(provider) ==
  IF provider = "ok" THEN NamesOf(BuiltinRegistry) ELSE <<>>

\* registryType.getProperty(baseDirective) exists and is not typed never
DirectiveSupportsOptions(baseDirective, registry) ==
  \E i \in 1..Len(registry) :
     registry[i].name = baseDirective /\ registry[i].acceptsOptions

\* typeChecker.isTypeAssignableTo(literalType, directiveType): Directive is
\* the union of the registry keys and the non-never value types
IsAssignable(text, registry) == Includes(NamesOf(registry), text)

Diagnostic(code, start, text, kind, scope, suggestions) ==
  [code |-> code, start |-> start, text |-> text, kind |-> kind,
   scope |-> scope, suggestions |-> suggestions]

Push(d, diagnostic) == [d EXCEPT !.diagnostics = Append(@, diagnostic)]

IsDirectiveStatement(stmt) ==
  /\ stmt.kind = "ExpressionStatement"
  /\ stmt.kids[1].kind = "StringLiteral"
  /\ IsDirectiveLike(stmt.kids[1].text)

\* mutant: every block is reported as the module body
PositionScope_ModuleOnly(parent) == "module body"

\* the scope the message of a position violation names
PositionScope(parent) ==
  IF parent.kind = "SourceFile" THEN "module body" ELSE "function body"

\* mutant: only the first statement of a sequence may be a directive
CheckDirectivePosition_FirstOnly(d, text, parent, statementIndex, start) ==
  IF ~IsDirectiveLike(text) THEN d
  ELSE IF statementIndex = 1
  THEN d
  ELSE IF parent.kind \in {"SourceFile", "Block"}
  THEN Push(d, Diagnostic(99002, start, text, "position", PositionScope(parent), <<>>))
  ELSE d

\* parent is the SourceFile or Block holding the statement, start stands for
\* node.getStart(): the path of the statement in the tree
CheckDirectivePosition(d, text, parent, statementIndex, start) ==
  IF ~IsDirectiveLike(text) THEN d
  ELSE IF \A i \in 1..(statementIndex - 1) : IsDirectiveStatement(parent.kids[i])
  THEN d
  ELSE IF parent.kind \in {"SourceFile", "Block"}
  THEN Push(d, Diagnostic(99002, start, text, "position", PositionScope(parent), <<>>))
  ELSE d

\* the message of an unknown base directive; validDirectives.sort() sorts the
\* array of the pass in place
PushUnknown(d, text, start, suggestions) ==
  IF Len(suggestions) > 0
  THEN Push(d, Diagnostic(99001, start, text, "unknownSuggest", "", suggestions))
  ELSE IF Len(d.validDirectives) > 0
  THEN Push([d EXCEPT !.validDirectives = SortStrings(@)],
            Diagnostic(99001, start, text, "unknownAvailable", "",
                       SortStrings(d.validDirectives)))
  ELSE Push(d, Diagnostic(99001, start, text, "unknown", "", <<>>))

PushWithSuggestions(d, text, start, kindWith, kindWithout, suggestions) ==
  IF Len(suggestions) > 0
  THEN Push(d, Diagnostic(99001, start, text, kindWith, "", suggestions))
  ELSE Push(d, Diagnostic(99001, start, text, kindWithout, "", <<>>))

SuggestFrom(text, variations) ==
  IF Len(variations) > 0
  THEN FindClosestDirectives(text, variations, DefaultMaxSuggestions)
  ELSE <<>>

\* the literal is not assignable to Directive
CheckNotAssignable(d, text, start, registry, variations) ==
  IF ~IsValidDirectiveType(text, d.validDirectives)
  THEN PushUnknown(d, text, start,
         FindClosestDirectives(
           IF BaseDirective(text) # Null THEN BaseDirective(text) ELSE text,
           d.validDirectives, DefaultMaxSuggestions))
  ELSE IF (Includes(text, ":") \/ Includes(text, ";")) /\ Truthy(BaseDirective(text))
  THEN IF ~DirectiveSupportsOptions(BaseDirective(text), registry)
       THEN Push(d, Diagnostic(99001, start, text, "noOptions", "", <<>>))
       ELSE PushWithSuggestions(d, text, start, "invalidOptionsSuggest",
                                "invalidOptions", SuggestFrom(text, variations))
  ELSE PushWithSuggestions(d, text, start, "notAssignableSuggest",
                           "notAssignable", SuggestFrom(text, variations))

\* the fallback without a Directive type: validation by matchDirective
CheckByMatch(d, text, start) ==
  IF MatchDirective(text, d.validDirectives) # Null THEN d
  ELSE PushUnknown(d, text, start,
         FindClosestDirectives(text, d.validDirectives, DefaultMaxSuggestions))

CheckDirective(d, text, start, registry, hasDirectiveType) ==
  IF ~IsDirectiveLike(text) THEN d
  ELSE IF hasDirectiveType
  THEN IF IsAssignable(text, registry) THEN d
       ELSE CheckNotAssignable(d, text, start, registry, NamesOf(registry))
  ELSE CheckByMatch(d, text, start)

\* visit of getSemanticDiagnostics, in forEachChild order; cfg holds the
\* registry and whether the Directive type resolved
RECURSIVE VisitDiagnostics(_, _, _, _, _, _)
RECURSIVE VisitDiagnosticsChildren(_, _, _, _, _)

\* mutant: a misplaced literal is not validated any further
CheckStatement_SkipMisplaced(d, node, parent, index, start, cfg) ==
  IF /\ node.kind = "ExpressionStatement"
     /\ node.kids[1].kind = "StringLiteral"
     /\ parent.kind \in {"SourceFile", "Block"}
  THEN IF CheckDirectivePosition(d, node.kids[1].text, parent, index, start) # d
       THEN CheckDirectivePosition(d, node.kids[1].text, parent, index, start)
       ELSE CheckDirective(d, node.kids[1].text, start, cfg.registry,
                           cfg.hasDirectiveType)
  ELSE d

CheckStatement(d, node, parent, index, start, cfg) ==
  IF /\ node.kind = "ExpressionStatement"
     /\ node.kids[1].kind = "StringLiteral"
     /\ parent.kind \in {"SourceFile", "Block"}
  THEN CheckDirective(
         CheckDirectivePosition(d, node.kids[1].text, parent, index, start),
         node.kids[1].text, start, cfg.registry, cfg.hasDirectiveType)
  ELSE d

VisitDiagnostics(d, node, parent, index, start, cfg) ==
  VisitDiagnosticsChildren(CheckStatement(d, node, parent, index, start, cfg),
                           node, 1, start, cfg)

\* the diagnostics pushed so far are in place when the next child is visited
VisitDiagnosticsChildren(d, node, i, start, cfg) ==
  IF Len(d.diagnostics) >= 0 /\ i <= Len(node.kids)
  THEN VisitDiagnosticsChildren(
         VisitDiagnostics(d, node.kids[i], node, i, Append(start, i), cfg),
         node, i + 1, start, cfg)
  ELSE d

\* mutant: the pass runs on an empty vocabulary as well
GetSemanticDiagnostics_NoEarlyReturn(originalDiagnostics, sourceFile, provider, hasDirectiveType) ==
  VisitDiagnostics(
    [diagnostics |-> originalDiagnostics,
     validDirectives |-> GetRegistryDirectives(provider)],
    sourceFile, sourceFile, 0, <<>>,
    [registry |-> BuiltinRegistry, hasDirectiveType |-> hasDirectiveType]
  ).diagnostics

\* getSemanticDiagnostics(fileName, languageService, ts, prior)
GetSemanticDiagnostics(originalDiagnostics, sourceFile, provider, hasDirectiveType) ==
  IF Len(GetRegistryDirectives(provider)) = 0 THEN originalDiagnostics
  ELSE VisitDiagnostics(
         [diagnostics |-> originalDiagnostics,
          validDirectives |-> GetRegistryDirectives(provider)],
         sourceFile, sourceFile, 0, <<>>,
         [registry |-> BuiltinRegistry, hasDirectiveType |-> hasDirectiveType]
       ).diagnostics

(* getSemanticDiagnostics *)

\* longest module drawn, in top-level statements
MaxStatements == 3

UseServct == <<"u","s","e"," ","s","e","r","v","c","t">>
UseZzz == <<"u","s","e"," ","z","z","z">>
Hello == <<"h","e","l","l","o">>

Literal(text) == ExpressionStatement(StringLiteral(text))

\* statements a module is drawn from: literals, another statement, a bare
\* block, and functions whose bodies hold literals in first and in later
\* position
DiagStatements ==
  {Literal(UseServer), Literal(UseServct), Literal(UseZzz),
   OtherStatement,
   Block(<<OtherStatement, Literal(UseServer)>>),
   FunctionDeclaration(<<"g">>, {}, <<OtherStatement, Literal(UseZzz)>>),
   VariableStatement({},
     <<VariableDeclaration(<<"h">>,
         <<ArrowFunction(
             <<Literal(UseServer),
               FunctionDeclaration(<<"k">>, {},
                 <<Literal(Hello), Literal(UseServer)>>)>>)>>)>>)}

DiagFiles == {SourceFile(q) : q \in SeqsUpTo(DiagStatements, MaxStatements)}

\* a diagnostic of the prior language service
PriorDiagnostic == Diagnostic(2304, <<>>, <<>>, "prior", "", <<>>)

\* the registry lookup succeeds with or without a resolvable Directive type,
\* finds no DirectiveRegistry, or throws
DiagSetups ==
  {[provider |-> "ok", hasDirectiveType |-> TRUE],
   [provider |-> "ok", hasDirectiveType |-> FALSE],
   [provider |-> "missing", hasDirectiveType |-> FALSE],
   [provider |-> "throws", hasDirectiveType |-> FALSE]}

DiagInit ==
  /\ Idle
  /\ arg \in [file : DiagFiles, setup : DiagSetups, prior : {<<PriorDiagnostic>>}]

ApplyGetSemanticDiagnostics ==
  Apply("getSemanticDiagnostics",
        GetSemanticDiagnostics(arg.prior, arg.file, arg.setup.provider,
                               arg.setup.hasDirectiveType))

DiagNext == ApplyGetSemanticDiagnostics

DiagSpec == DiagInit /\ [][DiagNext]_vars

Diagnosed == lastOp.op = "getSemanticDiagnostics"

IndexOf(list, x) == CHOOSE i \in 1..Len(list) : list[i] = x

\* the diagnostics of the result that carry a suggestion list
SuggestionLists == {k \in 1..Len(res) : res[k].kind = "unknownSuggest"}

\* C11: every suggestion list is ordered by non-decreasing edit distance,
\* names at equal distance stand in the order the registry supplies them,
\* and the list has at most maxSuggestions (3) names
C11_SuggestionsInProviderOrder ==
  Diagnosed =>
    \A k \in SuggestionLists :
       /\ Len(res[k].suggestions) <= DefaultMaxSuggestions
       /\ \A i, j \in 1..Len(res[k].suggestions) :
            i < j =>
              LET di == EditDistance(res[k].text, res[k].suggestions[i])
                  dj == EditDistance(res[k].text, res[k].suggestions[j])
                  supplied == GetRegistryDirectives(arg.setup.provider)
              IN  /\ di <= dj
                  /\ di = dj => IndexOf(supplied, res[k].suggestions[i])
                                  < IndexOf(supplied, res[k].suggestions[j])

\* the node a path of child indices leads to
RECURSIVE NodeAt(_, _)
NodeAt(node, path) ==
  IF path = <<>> THEN node ELSE NodeAt(node.kids[Head(path)], Tail(path))

RECURSIVE PathsOf(_)
PathsOf(node) ==
  {<<>>} \cup UNION {{<<i>> \o p : p \in PathsOf(node.kids[i])} :
                      i \in 1..Len(node.kids)}

ParentPath(p) == SubSeq(p, 1, Len(p) - 1)

\* the statements of the statement sequences of a file: the children of the
\* source file and of every block
StatementPaths(file) ==
  {p \in PathsOf(file) :
     p # <<>> /\ NodeAt(file, ParentPath(p)).kind \in {"SourceFile", "Block"}}

\* a string-literal statement whose text starts with "use "
IsUseLiteral(stmt) ==
  /\ stmt.kind = "ExpressionStatement"
  /\ stmt.kids[1].kind = "StringLiteral"
  /\ StartsWith(stmt.kids[1].text, UsePrefix)

UseLiteralPaths(file) ==
  {p \in StatementPaths(file) : IsUseLiteral(NodeAt(file, p))}

\* some earlier sibling of the statement is not a "use " literal
HasOtherBefore(file, p) ==
  \E j \in 1..(p[Len(p)] - 1) : ~IsUseLiteral(NodeAt(file, ParentPath(p)).kids[j])

\* the validation pass ran: the registry supplied a vocabulary
Validated == Diagnosed /\ arg.setup.provider = "ok"

Reported(code, p) == \E k \in 1..Len(res) : res[k].code = code /\ res[k].start = p

\* C16: a "use " literal statement gets a position violation (99002) exactly
\* when some earlier sibling in its statement sequence is not a "use "
\* literal statement, and nothing else gets one
C16_PositionViolationIffOtherBefore ==
  Validated =>
    /\ \A p \in UseLiteralPaths(arg.file) :
          Reported(99002, p) <=> HasOtherBefore(arg.file, p)
    /\ \A k \in 1..Len(res) :
          res[k].code = 99002 => res[k].start \in UseLiteralPaths(arg.file)

\* C16 witness: a second leading directive without a violation and, in the
\* same file, a directive after another statement with one
C16_Witness ==
  /\ Validated
  /\ \E p \in UseLiteralPaths(arg.file) :
        p[Len(p)] > 1 /\ ~HasOtherBefore(arg.file, p) /\ ~Reported(99002, p)
  /\ \E p \in UseLiteralPaths(arg.file) :
        HasOtherBefore(arg.file, p) /\ Reported(99002, p)

\* the scope of a statement: the module top level, the body of a function,
\* or another block
ScopeOf(file, p) ==
  IF ParentPath(p) = <<>> THEN "module body"
  ELSE IF NodeAt(file, ParentPath(ParentPath(p))).kind
            \in {"FunctionDeclaration", "FunctionExpression", "ArrowFunction"}
  THEN "function body"
  ELSE "block"

\* the position violations reported for a statement
PositionReports(p) == {k \in 1..Len(res) : res[k].code = 99002 /\ res[k].start = p}

\* the misplaced "use " literals of one kind of scope
Misplaced(file, scope) ==
  {p \in UseLiteralPaths(file) : HasOtherBefore(file, p) /\ ScopeOf(file, p) = scope}

\* C17: every misplaced "use " literal gets one position violation, decided
\* by its own statement sequence alone and naming its own scope ("module
\* body" or "function body"); a well-placed one gets none whatever other
\* scopes hold
C17_PositionPerScope ==
  Validated =>
    /\ \A p \in UseLiteralPaths(arg.file) :
          ScopeOf(arg.file, p) # "block" =>
            /\ Cardinality(PositionReports(p))
                  = (IF HasOtherBefore(arg.file, p) THEN 1 ELSE 0)
            /\ \A k \in PositionReports(p) : res[k].scope = ScopeOf(arg.file, p)
    /\ \A scope \in {"module body", "function body"} :
          Cardinality({k \in 1..Len(res) :
                         /\ res[k].code = 99002
                         /\ ScopeOf(arg.file, res[k].start) = scope})
            = Cardinality(Misplaced(arg.file, scope))

\* C17 witness: one misplaced module directive and one misplaced function
\* directive, reported as exactly two violations, one of each kind
C17_Witness ==
  /\ Validated
  /\ Cardinality(Misplaced(arg.file, "module body")) = 1
  /\ Cardinality(Misplaced(arg.file, "function body")) = 1
  /\ Cardinality({k \in 1..Len(res) : res[k].code = 99002}) = 2
  /\ \E k \in 1..Len(res) : res[k].code = 99002 /\ res[k].scope = "module body"
  /\ \E k \in 1..Len(res) : res[k].code = 99002 /\ res[k].scope = "function body"

\* C30: a position violation naming "function body" is reported only for
\* a literal whose enclosing block is the body of a function, not for one
\* in another block
C30_FunctionBodyOnlyInFunctions ==
  Validated =>
    \A k \in 1..Len(res) :
       (res[k].code = 99002 /\ res[k].scope = "function body")
         => ScopeOf(arg.file, res[k].start) = "function body"

\* the text of the literal is a directive of the shipped registry
IsValidText(text) == Includes(BuiltinDirectives, text)

TextAt(file, p) == NodeAt(file, p).kids[1].text

\* C18: position and text are validated independently: a "use " literal
\* gets 99002 exactly when it is misplaced and 99001 exactly when its text
\* is not a valid directive, so a misplaced invalid one gets both, a
\* misplaced valid one only 99002 and a well-placed invalid one only 99001
C18_PositionAndTextIndependent ==
  Validated =>
    \A p \in UseLiteralPaths(arg.file) :
       /\ Reported(99002, p) <=> HasOtherBefore(arg.file, p)
       /\ Reported(99001, p) <=> ~IsValidText(TextAt(arg.file, p))

\* C18 witness: one file with a misplaced invalid literal reported twice, a
\* misplaced valid one with 99002 only and a well-placed invalid one with
\* 99001 only
C18_Witness ==
  /\ Validated
  /\ \E p \in UseLiteralPaths(arg.file) :
        /\ HasOtherBefore(arg.file, p) /\ ~IsValidText(TextAt(arg.file, p))
        /\ Reported(99002, p) /\ Reported(99001, p)
  /\ \E p \in UseLiteralPaths(arg.file) :
        /\ HasOtherBefore(arg.file, p) /\ IsValidText(TextAt(arg.file, p))
        /\ Reported(99002, p) /\ ~Reported(99001, p)
  /\ \E p \in UseLiteralPaths(arg.file) :
        /\ ~HasOtherBefore(arg.file, p) /\ ~IsValidText(TextAt(arg.file, p))
        /\ ~Reported(99002, p) /\ Reported(99001, p)

\* the registry lookup found no DirectiveRegistry or threw: no vocabulary
ProviderFailed == arg.setup.provider \in {"missing", "throws"}

\* C19: when the provider fails or supplies no names, getSemanticDiagnostics
\* returns exactly the diagnostics of the prior service, whatever the file
\* holds
C19_FailOpen ==
  (Diagnosed /\ ProviderFailed) => res = arg.prior

\* C19 witness: the provider threw on a file with a misplaced literal that is
\* no valid directive, and the prior diagnostic came back alone
C19_Witness ==
  /\ Diagnosed
  /\ arg.setup.provider = "throws"
  /\ \E p \in UseLiteralPaths(arg.file) :
        HasOtherBefore(arg.file, p) /\ ~IsValidText(TextAt(arg.file, p))
  /\ arg.prior = <<PriorDiagnostic>>
  /\ res = <<PriorDiagnostic>>

\* the diagnostics of a pass over a file that holds the literal alone
DiagnosticsAlone(text) ==
  GetSemanticDiagnostics(<<>>, SourceFile(<<Literal(text)>>),
                         arg.setup.provider, arg.setup.hasDirectiveType)

\* C28: the message form and the suggestion list reported for an invalid
\* literal are those a pass reports for that literal alone, whatever other
\* invalid literals the pass met before it
C28_DiagnosticDependsOnTextAlone ==
  Validated =>
    \A k \in 1..Len(res) :
       res[k].code = 99001 =>
         \E alone \in {DiagnosticsAlone(res[k].text)} :
            /\ Len(alone) = 1
            /\ alone[1].kind = res[k].kind
            /\ alone[1].suggestions = res[k].suggestions

----------------------------------------------------------------------------
(* scanFileDirectives on drawn modules *)

NameG == <<"g">>
NameH == <<"h">>
NameV == <<"v">>
NameC == <<"C">>
NameW == <<"w">>

\* statements a module is drawn from
ScanStatements ==
  {Literal(UseServer),
   Literal(UseClient),
   Literal(Hello),
   FunctionDeclaration(NameF, {"export"}, <<OtherStatement>>),
   FunctionDeclaration(NameF, {"export"}, <<Literal(UseClient)>>),
   FunctionDeclaration(NameG, {}, <<Literal(UseClient)>>),
   FunctionDeclaration(NameG, {}, <<OtherStatement>>),
   VariableStatement({"export"},
     <<VariableDeclaration(NameV, <<ArrowFunction(<<Literal(UseClient)>>)>>)>>),
   VariableStatement({"export"},
     <<VariableDeclaration(NameV, <<ArrowFunction(<<OtherStatement>>)>>)>>),
   ClassDeclaration(NameC, {"export"}),
   FunctionDeclaration(<<>>, {"export", "default"}, <<Literal(UseClient)>>),
   FunctionDeclaration(NameF, {"export", "default"}, <<OtherStatement>>),
   ExportAssignment(Identifier(NameG)),
   ExportAssignment(ArrowFunction(<<Literal(UseClient)>>)),
   ExportDeclaration(<<ExportSpecifier(DefaultKey, NameG)>>, <<>>),
   ExportDeclaration(<<ExportSpecifier(NameH, NameG)>>, <<>>),
   ExportDeclaration(<<ExportSpecifier(NameH, NameF)>>, <<>>),
   ExportDeclaration(<<ExportSpecifier(NameH, NameG)>>, FileB),
   FunctionDeclaration(NameW, {},
     <<FunctionDeclaration(NameF, {}, <<Literal(UseNoMemo)>>)>>)}

IsDeclaration(stmt) ==
  stmt.kind \in {"FunctionDeclaration", "ClassDeclaration", "VariableStatement"}

\* the names a top-level statement declares
DeclaredNames(stmt) ==
  IF stmt.kind \in {"FunctionDeclaration", "ClassDeclaration"}
  THEN (IF stmt.text # <<>> THEN {stmt.text} ELSE {})
  ELSE IF stmt.kind = "VariableStatement"
  THEN {stmt.kids[i].text : i \in 1..Len(stmt.kids)}
  ELSE {}

\* the statement exports the default binding of the module
IsDefaultExport(stmt) ==
  \/ IsDeclaration(stmt) /\ "default" \in stmt.mods
  \/ stmt.kind = "ExportAssignment"
  \/ /\ stmt.kind = "ExportDeclaration"
     /\ \E i \in 1..Len(stmt.kids) : stmt.kids[i].text = DefaultKey

\* the external names an export clause exports
ClauseNames(stmt) ==
  IF stmt.kind = "ExportDeclaration"
  THEN {stmt.kids[i].text : i \in 1..Len(stmt.kids)}
  ELSE {}

\* a module the compiler accepts: no name declared twice at top level, no
\* name exported by two clauses, at most one default export; the string
\* literal statements are drawn in front only
IsModule(q) ==
  /\ \A i, j \in 1..Len(q) : i < j => DeclaredNames(q[i]) \cap DeclaredNames(q[j]) = {}
  /\ \A i, j \in 1..Len(q) : i < j => ClauseNames(q[i]) \cap ClauseNames(q[j]) = {}
  /\ Cardinality({i \in 1..Len(q) : IsDefaultExport(q[i])}) <= 1
  /\ \A i \in 2..Len(q) :
        q[i].kind = "ExpressionStatement" => q[i - 1].kind = "ExpressionStatement"

ScanModules ==
  {SourceFile(q) : q \in {r \in SeqsUpTo(ScanStatements, MaxStatements) : IsModule(r)}}

ScanInit ==
  /\ Idle
  /\ arg \in [file : ScanModules]

ApplyScanFileDirectives ==
  Apply("scanFileDirectives", ScanFileDirectives(arg.file, GetValidDirectives))

ScanNext == ApplyScanFileDirectives

ScanSpec == ScanInit /\ [][ScanNext]_vars

Scanned == lastOp.op = "scanFileDirectives"

\* reading the module as the language defines it: the directive a function
\* body starts with, the top-level declaration a name refers to, and the
\* exports with the declaration or expression each one binds

BodyDirective(fn) ==
  IF /\ Len(fn.kids) > 0
     /\ fn.kids[1].kind = "Block"
     /\ Len(fn.kids[1].kids) > 0
     /\ fn.kids[1].kids[1].kind = "ExpressionStatement"
     /\ fn.kids[1].kids[1].kids[1].kind = "StringLiteral"
     /\ Includes(GetValidDirectives, fn.kids[1].kids[1].kids[1].text)
  THEN fn.kids[1].kids[1].kids[1].text
  ELSE Null

IsFunctionValue(node) ==
  node.kind \in {"FunctionDeclaration", "FunctionExpression", "ArrowFunction"}

InlineDirectiveOf(node) == IF IsFunctionValue(node) THEN BodyDirective(node) ELSE Null

\* the value bound to a name at the top level of the module
TopLevelBindings(file) ==
  {[name |-> file.kids[i].text, value |-> file.kids[i]] :
      i \in {j \in 1..Len(file.kids) :
               /\ file.kids[j].kind \in {"FunctionDeclaration", "ClassDeclaration"}
               /\ file.kids[j].text # <<>>}}
  \cup UNION {
    {[name |-> file.kids[i].kids[k].text,
      value |-> IF Len(file.kids[i].kids[k].kids) > 0
                THEN file.kids[i].kids[k].kids[1] ELSE OtherExpression] :
        k \in 1..Len(file.kids[i].kids)} :
      i \in {j \in 1..Len(file.kids) : file.kids[j].kind = "VariableStatement"}}

\* the value a name stands for: its top-level declaration, or some value
\* from outside the module (an import)
ValuesOf(file, name) ==
  IF \E b \in TopLevelBindings(file) : b.name = name
  THEN {b.value : b \in {x \in TopLevelBindings(file) : x.name = name}}
  ELSE {OtherExpression}

\* the exports of a module: external name, exported value, syntactic form
ExportsOf(file) ==
  UNION {
    LET stmt == file.kids[i]
    IN  IF stmt.kind \in {"FunctionDeclaration", "ClassDeclaration"}
           /\ "export" \in stmt.mods
        THEN (IF stmt.text # <<>>
              THEN {[name |-> stmt.text, value |-> stmt, form |-> "declaration"]}
              ELSE {})
             \cup (IF "default" \in stmt.mods
                   THEN {[name |-> DefaultKey, value |-> stmt, form |-> "declaration"]}
                   ELSE {})
        ELSE IF stmt.kind = "VariableStatement" /\ "export" \in stmt.mods
        THEN {[name |-> b.name, value |-> b.value, form |-> "declaration"] :
                b \in {x \in TopLevelBindings(SourceFile(<<stmt>>)) : TRUE}}
        ELSE IF stmt.kind = "ExportAssignment"
        THEN IF stmt.kids[1].kind = "Identifier"
             THEN {[name |-> DefaultKey, value |-> v, form |-> "assignment"] :
                     v \in ValuesOf(file, stmt.kids[1].text)}
             ELSE {[name |-> DefaultKey, value |-> stmt.kids[1], form |-> "assignment"]}
        ELSE IF stmt.kind = "ExportDeclaration" /\ stmt.text = <<>>
        THEN UNION {
               {[name |-> stmt.kids[k].text, value |-> v, form |-> "clause"] :
                  v \in ValuesOf(file, ExportedNameOf(stmt.kids[k]))} :
               k \in 1..Len(stmt.kids)}
        ELSE {} : i \in 1..Len(file.kids)}

\* the external names the module forwards with `export { .. } from ".."`
ForwardedNames(file) ==
  UNION {{file.kids[i].kids[k].text : k \in 1..Len(file.kids[i].kids)} :
           i \in {j \in 1..Len(file.kids) :
                    file.kids[j].kind = "ExportDeclaration" /\ file.kids[j].text # <<>>}}

\* the first statement of the module, when it is a valid directive
ModuleDirectiveOf(file) ==
  IF /\ Len(file.kids) > 0
     /\ file.kids[1].kind = "ExpressionStatement"
     /\ file.kids[1].kids[1].kind = "StringLiteral"
     /\ Includes(GetValidDirectives, file.kids[1].kids[1].text)
  THEN file.kids[1].kids[1].text
  ELSE Null

\* C12: in a module whose first statement is a valid directive d, every
\* export without an inline directive of its own is in exportDirectives with
\* value d, and moduleDirectives is [d]
C12_ExportsInheritModuleDirective ==
  (Scanned /\ ModuleDirectiveOf(arg.file) # Null) =>
    /\ res.moduleDirectives = <<ModuleDirectiveOf(arg.file)>>
    /\ \A e \in ExportsOf(arg.file) :
          InlineDirectiveOf(e.value) = Null =>
            MapGet(res.exportDirectives, e.name) = ModuleDirectiveOf(arg.file)

\* the exports under their own name that are a function declaration or a
\* function-valued variable carrying the export modifier
ExportedFunctions(file) ==
  {e \in ExportsOf(file) :
     e.form = "declaration" /\ IsFunctionValue(e.value) /\ e.name # DefaultKey}

\* C13: an exported function or function-valued variable whose body starts
\* with a valid inline directive i is mapped to i, with or without a module
\* directive; one without an inline directive is mapped to the module
\* directive, if the module has one
C13_InlineDirectiveWins ==
  Scanned =>
    \A e \in ExportedFunctions(arg.file) :
       MapGet(res.exportDirectives, e.name) =
         (IF InlineDirectiveOf(e.value) # Null THEN InlineDirectiveOf(e.value)
          ELSE ModuleDirectiveOf(arg.file))

CarriedDirective(file, e) ==
  IF InlineDirectiveOf(e.value) # Null THEN InlineDirectiveOf(e.value)
  ELSE ModuleDirectiveOf(file)

\* C15: a default export that carries a directive is in exportDirectives
\* under the key "default" with that directive, whatever its syntactic form;
\* a named default-exported function is also stored under its own name
C15_DefaultExportRecorded ==
  Scanned =>
    \A e \in ExportsOf(arg.file) :
       (e.name = DefaultKey /\ CarriedDirective(arg.file, e) # Null) =>
         /\ MapGet(res.exportDirectives, DefaultKey) = CarriedDirective(arg.file, e)
         /\ (e.form = "declaration" /\ e.value.kind = "FunctionDeclaration"
               /\ e.value.text # <<>>) =>
              MapGet(res.exportDirectives, e.value.text)
                = CarriedDirective(arg.file, e)

----------------------------------------------------------------------------
(* The resolver's miss path *)

\* every entry of a scan of module m is in the export index
IndexHoldsScan(m) ==
  \A i \in 1..Len(ScanFile(version, m).exportDirectives) :
     GetExportDirective(exportMap, m, ScanFile(version, m).exportDirectives[i][1])
       = ScanFile(version, m).exportDirectives[i][2]

\* C20: after a query in which the lookup of an imported binding missed the
\* export index, the index holds every entry of the scan of the resolved
\* module, so that the next lookup of the name is an index hit
C20_MissPopulatesIndex ==
  lastOp.op = "query" => \A m \in lastOp.missed : IndexHoldsScan(m)

----------------------------------------------------------------------------
(* Re-exports and export clauses *)

\* what resolving an imported name against a freshly scanned module yields
Resolved(scanned, name) == ScannedDirective(scanned, name)

\* the module itself exports a declaration under the name that carries a
\* directive
ExportsCarrier(file, name) ==
  \E e \in ExportsOf(file) : e.name = name /\ CarriedDirective(file, e) # Null

\* C21: a name a module only forwards with `export { name } from "./other"`
\* resolves to none against that module, unless the module itself exports a
\* directive-carrying declaration under that name
C21_ForwardedNameResolvesToNone ==
  Scanned =>
    \A n \in ForwardedNames(arg.file) :
       ~ExportsCarrier(arg.file, n) => Resolved(res, n) = Null

\* the specifiers of the local export clauses of the module
LocalClauseSpecifiers(file) ==
  UNION {{file.kids[i].kids[k] : k \in 1..Len(file.kids[i].kids)} :
           i \in {j \in 1..Len(file.kids) :
                    file.kids[j].kind = "ExportDeclaration" /\ file.kids[j].text = <<>>}}

\* C26: for `export { local as exported }` with local declared in the
\* module, exportDirectives maps exported to the inline directive of the
\* declaration of local, else to the module directive, and has no entry
\* under local unless local is exported under its own name
C26_ClauseExportsDirectiveOfLocal ==
  Scanned =>
    \A element \in LocalClauseSpecifiers(arg.file) :
       \A b \in {x \in TopLevelBindings(arg.file) : x.name = ExportedNameOf(element)} :
          /\ MapGet(res.exportDirectives, element.text) =
               (IF InlineDirectiveOf(b.value) # Null THEN InlineDirectiveOf(b.value)
                ELSE ModuleDirectiveOf(arg.file))
          /\ MapHas(res.exportDirectives, b.name)
               => \E e \in ExportsOf(arg.file) : e.name = b.name

\* a function of that name is declared inside another function body
DeclaredNested(file, name) ==
  \E p \in PathsOf(file) :
     /\ Len(p) > 1
     /\ NodeAt(file, p).kind = "FunctionDeclaration"
     /\ NodeAt(file, p).text = name

\* C27: the directive stored under the name of an exported function or
\* variable declaration E is E's inline directive, else the module
\* directive, else none, also when a function nested in another function
\* body has the same name
C27_EntryDeterminedByExportAlone ==
  Scanned =>
    \A e \in ExportedFunctions(arg.file) :
       DeclaredNested(arg.file, e.name) =>
         \E d \in {InlineDirectiveOf(e.value)} :
            MapGet(res.exportDirectives, e.name) =
              (IF d # Null THEN d ELSE ModuleDirectiveOf(arg.file))

\* the texts of the string literal statements after the first one that
\* lead the module together with it
LaterLeadingLiterals(file) ==
  {file.kids[i].kids[1].text :
     i \in {j \in 2..Len(file.kids) :
              \A k \in 1..j : /\ file.kids[k].kind = "ExpressionStatement"
                              /\ file.kids[k].kids[1].kind = "StringLiteral"}}

\* C24: moduleDirectives is empty or holds the one name the first statement
\* of the module matches; an export without an inline directive never gets
\* the directive of a second or later leading literal
C24_OnlyFirstStatementIsModuleDirective ==
  Scanned =>
    /\ res.moduleDirectives =
         (IF ModuleDirectiveOf(arg.file) # Null
          THEN <<ModuleDirectiveOf(arg.file)>> ELSE <<>>)
    /\ \A e \in ExportsOf(arg.file) :
          InlineDirectiveOf(e.value) = Null =>
            MapGet(res.exportDirectives, e.name)
              \notin LaterLeadingLiterals(arg.file) \ {ModuleDirectiveOf(arg.file)}

\* C24 witness: a module led by "use server" and then "use client" whose
\* export without an inline directive got "use server"
C24_Witness ==
  /\ Scanned
  /\ ModuleDirectiveOf(arg.file) = UseServer
  /\ UseClient \in LaterLeadingLiterals(arg.file)
  /\ res.moduleDirectives = <<UseServer>>
  /\ \E e \in ExportsOf(arg.file) :
        /\ InlineDirectiveOf(e.value) = Null
        /\ MapGet(res.exportDirectives, e.name) = UseServer

----------------------------------------------------------------------------
(* ensureFileScanned taken apart into its steps *)

\* the executions of ensureFileScanned(FileA) that run side by side
Executions == {1, 2}

\* the contents of FileA the host presents: under token 3 function a starts
\* with "use client"; under token 6 the module starts with "use server" and a
\* is the default export
PublishContents == {3, 6}

NoScan == [moduleDirectives |-> <<>>, exportDirectives |-> <<>>]

\* an execution: its position, the token of the source file it fetched, the
\* result of its scan and the number of entries it has published; history:
\* the export index it found, and whether no other execution was under way
\* when it started
IdleExecution ==
  [pc |-> "idle", ver |-> 0, scanned |-> NoScan, i |-> 0,
   before |-> EmptyMap, quiet |-> TRUE]

UnderWay(p) == arg[p].pc \in {"clear", "scan", "cache", "publish"}

PublishInit ==
  /\ version \in {v \in [FileSet -> PublishContents \cup Versions] :
                    v[FileA] \in PublishContents /\ v[FileB] \in Versions}
  /\ fileCache = EmptyMap
  /\ exportMap = EmptyMap
  /\ scannedFiles = {}
  /\ lastOp = NoOp
  /\ writes = {}
  /\ lastEnsure = [f \in FileSet |-> 0]
  /\ lastSet = EmptyMap
  /\ arg = [p \in Executions |-> IdleExecution]
  /\ res = <<>>

\* the source file an execution holds: FileA as it was when it was fetched
Fetched(p) == [version EXCEPT ![FileA] = arg[p].ver]

\* one step of execution p: the cache becomes c, the execution becomes e
Step(p, c, e, op) ==
  /\ Commit(c, op)
  /\ arg' = [arg EXCEPT ![p] = e]
  /\ UNCHANGED version

\* program.getSourceFile, the cache key, scannedFiles.has(cacheKey)
FetchSourceFile(p) ==
  /\ arg[p].pc = "idle"
  /\ Step(p, CacheState,
          [arg[p] EXCEPT
             !.pc = IF CacheKey(version, FileA) \in scannedFiles
                    THEN "skipped" ELSE "clear",
             !.ver = version[FileA],
             !.before = exportMap,
             !.quiet = \A q \in Executions : ~UnderWay(q)],
          "fetch")
  /\ UNCHANGED res

ClearStep(p) ==
  /\ arg[p].pc = "clear"
  /\ Step(p, ClearExportDirectives(CacheState, FileA),
          [arg[p] EXCEPT !.pc = "scan"], "clear")
  /\ UNCHANGED res

ScanStep(p) ==
  /\ arg[p].pc = "scan"
  /\ Step(p, CacheState,
          [arg[p] EXCEPT !.pc = "cache",
                         !.scanned = ScanFileDirectives(ModuleOf(arg[p].ver),
                                                        GetValidDirectives)],
          "scan")
  /\ UNCHANGED res

\* scanFileDirectives throws (the type checker was cancelled): the call
\* ends, nothing after the scan runs
ScanFails(p) ==
  /\ arg[p].pc = "scan"
  /\ Step(p, CacheState, [arg[p] EXCEPT !.pc = "failed"], "scanFails")
  /\ UNCHANGED res

\* res keeps the order of the setCachedDirectives calls
SetCachedStep(p) ==
  /\ arg[p].pc = "cache"
  /\ Step(p, SetCachedDirectives(CacheState, Fetched(p), FileA,
                                 arg[p].scanned.moduleDirectives,
                                 arg[p].scanned.exportDirectives),
          [arg[p] EXCEPT !.pc = "publish"], "setCached")
  /\ res' = Append(res, p)

SetExportStep(p) ==
  /\ arg[p].pc = "publish"
  /\ arg[p].i < Len(arg[p].scanned.exportDirectives)
  /\ Step(p, SetExportDirective(CacheState, FileA,
                                arg[p].scanned.exportDirectives[arg[p].i + 1][1],
                                arg[p].scanned.exportDirectives[arg[p].i + 1][2]),
          [arg[p] EXCEPT !.i = @ + 1], "setExport")
  /\ UNCHANGED res

MarkStep(p) ==
  /\ arg[p].pc = "publish"
  /\ arg[p].i = Len(arg[p].scanned.exportDirectives)
  /\ Step(p, MarkScanned(CacheState, CacheKey(Fetched(p), FileA)),
          [arg[p] EXCEPT !.pc = "done"], "mark")
  /\ UNCHANGED res

\* a whole ensureFileScanned(FileB) between two steps
EnsureOther ==
  /\ Commit(EnsureFileScanned(CacheState, version, FileB), "ensureOther")
  /\ UNCHANGED <<version, arg, res>>

\* the host replaces the content of FileA
PublishEdit(v) ==
  /\ v # version[FileA]
  /\ version' = [version EXCEPT ![FileA] = v]
  /\ lastOp' = OpRecord("hostEdit")
  /\ writes' = {}
  /\ UNCHANGED <<fileCache, exportMap, scannedFiles, lastEnsure, lastSet, arg, res>>

PublishNext ==
  \/ \E p \in Executions : FetchSourceFile(p)
  \/ \E p \in Executions : ClearStep(p)
  \/ \E p \in Executions : ScanStep(p)
  \/ \E p \in Executions : ScanFails(p)
  \/ \E p \in Executions : SetCachedStep(p)
  \/ \E p \in Executions : SetExportStep(p)
  \/ \E p \in Executions : MarkStep(p)
  \/ EnsureOther
  \/ \E v \in PublishContents : PublishEdit(v)

PublishSpec == PublishInit /\ [][PublishNext]_vars

\* the export-index entries of file f are those of the scan result
IndexEquals(f, scanned) ==
  \A n \in ExportNames :
     GetExportDirective(exportMap, f, n) = ScannedDirective(scanned, n)

BothPublished == \A p \in Executions : arg[p].pc = "done"

FailedAlone(p) ==
  /\ lastOp.op = "scanFails"
  /\ arg[p].pc = "failed"
  /\ arg[p].quiet
  /\ \A q \in Executions \ {p} :
        \/ arg[q].pc = "idle"
        \/ arg[q].pc \in {"done", "skipped"} /\ arg[q].quiet

\* the entries of FileA in the export index are those of index em
SameEntries(em) ==
  \A n \in ExportNames :
     GetExportDirective(exportMap, FileA, n) = GetExportDirective(em, FileA, n)

\* the cache and the index hold the scan of the content p fetched
FullyUpdated(p) ==
  /\ GetCachedDirectives(fileCache, Fetched(p), FileA).hit
  /\ IndexEquals(FileA, ScanFileDirectives(ModuleOf(arg[p].ver), GetValidDirectives))

\* C23: when ensureFileScanned fails, the export index and the per-file
\* cache are as they were when it started, or hold the complete result of
\* its scan
C23_FailedScanLeavesNoTrace ==
  \A p \in Executions :
     FailedAlone(p) => (SameEntries(arg[p].before) \/ FullyUpdated(p))

====
